---- MODULE Spec2Model ----
(***************************************************************************)
(* Model of the CameraManager page controller (src/admin.js).              *)
(*                                                                         *)
(* State: the manager's camera list, the camera cards of the grid (button  *)
(* enablement, status indicator class, the video element of the video      *)
(* container), the Hls player objects created so far, the control          *)
(* requests and status polls in flight, and what the operator was shown    *)
(* (alerts, notifications, the active camera count).                       *)
(***************************************************************************)
EXTENDS Integers, Sequences, FiniteSets, TLC

\* ------------------------------------------------------------------ bounds
\* events from outside in one run: control-button clicks, ticks of the
\* polling interval and error events of the players, taken together
MaxEvents == 3

\* ------------------------------------------------------------- vocabulary
CameraIds == {"0", "1"}

\* Text the operator may have typed into #new-camera-id (one character per
\* element); it is trimmed before use.
Inputs ==
    { <<>>, <<" ">>, <<"0">>, <<" ", "0">>, <<"0", " ">>, <<"1">>, <<" ", "1", " ">> }

Actions == {"start", "stop"}

\* How a control request can resolve: 2xx with a JSON body, non-2xx with a
\* JSON body, or an exception out of the awaits (a rejected fetch, a body
\* that is not JSON).
Outcomes == {"ok", "non2xx", "threw"}

\* hls.js error types seen by the ERROR listener
ErrorTypes == {"networkError", "mediaError", "otherError"}

\* What the browser can play: Hls.isSupported(), native HLS, or neither.
Supports == {"hls", "native", "none"}

\* One camera's entry in a status response: missing, or present with main
\* true / false.
Health == {"absent", "up", "down"}
Snapshots == [CameraIds -> Health]

\* A video element that carries no Hls player (native playback or no source)
NativeVideo == -1
NoVideo == 0

VARIABLES
    cameras,        \* this.cameras: sequence of camera ids
    cards,          \* #camera-grid: camera id -> its card
    players,        \* every Hls object created so far, in creation order
    support,        \* what the browser supports (fixed for a run)
    pending,        \* control requests whose fetch has not resolved
    nreq,           \* control requests issued so far
    intent,         \* per camera: what the operator last asked for
    alerts,         \* number of alert() calls made
    lastAlert,      \* the alert shown last
    polls,          \* poll ticks whose fetch has not resolved
    npoll,          \* poll ticks so far
    lastApplied,    \* tick of the poll response applied last
    pollSaw,        \* per camera: what that response said of a camera that
                    \* was live when it was applied ("-" for one that was not)
    activeCount,    \* #active-cam-count text
    notified,       \* showNotification calls made
    loadState,      \* the initial /api/status load
    nerr            \* error events reported so far

vars == << cameras, cards, players, support, pending, nreq, intent, alerts,
           lastAlert, polls, npoll, lastApplied, pollSaw, activeCount, notified,
           loadState, nerr >>

\* --------------------------------------------------------------- helpers
Range(s) == { s[i] : i \in DOMAIN s }

\* Array.prototype.includes on this.cameras
Includes(cams, id) == id \in Range(cams)

RECURSIVE TrimLeft(_)
TrimLeft(s) ==
    IF s # <<>> /\ Head(s) = " " THEN TrimLeft(Tail(s)) ELSE s

RECURSIVE TrimRight(_)
TrimRight(s) ==
    IF s # <<>> /\ s[Len(s)] = " " THEN TrimRight(SubSeq(s, 1, Len(s) - 1)) ELSE s

\* String.prototype.trim on the typed text
Trim(s) == TrimRight(TrimLeft(s))

\* The camera id a trimmed, non-empty text denotes.
IdOf(s) == s[1]

\* A freshly rendered card: start enabled, stop disabled, bare indicator,
\* empty video container.
NewCard ==
    [ startDisabled |-> FALSE,
      stopDisabled  |-> TRUE,
      indicator     |-> "status-indicator",
      video         |-> NoVideo ]

\* grid.appendChild(card)
RenderCameraCard(cds, id) ==
    [ c \in DOMAIN cds \cup {id} |-> IF c = id THEN NewCard ELSE cds[c] ]

\* CreateCameraCard without the includes test: every id is pushed and rendered
CreateCameraCardAlways(cams, cds, id) ==
    [ cameras |-> Append(cams, id), cards |-> RenderCameraCard(cds, id) ]

\* createCameraCard: only an id not yet in the list is pushed and rendered.
\* The result is the pair (camera list, cards).
CreateCameraCard(cams, cds, id) ==
    IF ~Includes(cams, id)
    THEN [ cameras |-> Append(cams, id), cards |-> RenderCameraCard(cds, id) ]
    ELSE [ cameras |-> cams, cards |-> cds ]

\* the forEach of renderCameraGrid over the first n ids of the list
RECURSIVE GridLoop(_, _, _)
GridLoop(cams, cds, n) ==
    IF n = 0 THEN [ cameras |-> cams, cards |-> cds ]
    ELSE LET before == GridLoop(cams, cds, n - 1)
         IN  CreateCameraCard(before.cameras, before.cards, cams[n])

\* grid.innerHTML = ''
EmptyGrid == [ c \in {} |-> NewCard ]

\* renderCameraGrid: empty the grid, then createCameraCard for every id
RenderCameraGrid(cams) == GridLoop(cams, EmptyGrid, Len(cams))

\* Does the selector ".status-indicator" match the card's indicator element?
HasIndicator(card) ==
    card.indicator \in {"status-indicator", "status-indicator active"}

\* UpdateButtonStates whose selectors are not scoped to the camera's card:
\* the buttons of every card are set.
UpdateButtonStatesAll(cds, id, isStarted) ==
    IF id \notin DOMAIN cds THEN cds
    ELSE [ c \in DOMAIN cds |->
             [ cds[c] EXCEPT !.startDisabled = isStarted,
                             !.stopDisabled = ~isStarted ] ]

\* UpdateButtonStates that sets the start button only
UpdateButtonStatesStartOnly(cds, id, isStarted) ==
    IF id \notin DOMAIN cds THEN cds
    ELSE [ cds EXCEPT ![id].startDisabled = isStarted ]

\* updateButtonStates(cameraId, isStarted)
UpdateButtonStates(cds, id, isStarted) ==
    IF id \notin DOMAIN cds THEN cds
    ELSE [ cds EXCEPT
             ![id].startDisabled = isStarted,
             ![id].stopDisabled = ~isStarted,
             ![id].indicator =
                 IF HasIndicator(cds[id])
                 THEN (IF isStarted THEN "status-indicator active"
                                    ELSE "status-indicator")
                 ELSE @ ]

\* new Hls(...) with its ERROR listener, loadSource and attachMedia done
NewPlayer(id) ==
    [ cam        |-> id,
      destroyed  |-> FALSE,
      startLoads |-> 0,       \* startLoad calls
      recovers   |-> 0,       \* recoverMediaError calls
      destroys   |-> 0,       \* destroy calls
      plays      |-> 0,       \* video.play() calls
      mediaRun   |-> 0 ]      \* fatal media errors since playback last began

\* The hls property of a video element, which destroyVideoStream reads.
\* initVideoStream keeps the player in a local constant and never stores it
\* on the element, so the property is undefined (0) for every video.
VideoHls(v) == 0

\* initVideoStream(cameraId).  The result is the pair (cards, players).
InitVideoStream(cds, pls, sup, id) ==
    IF id \notin DOMAIN cds THEN [ cards |-> cds, players |-> pls ]
    ELSE IF sup = "hls"
         THEN [ cards   |-> [ cds EXCEPT ![id].video = Len(pls) + 1 ],
                players |-> Append(pls, NewPlayer(id)) ]
         ELSE [ cards   |-> [ cds EXCEPT ![id].video = NativeVideo ],
                players |-> pls ]

\* hls.destroy()
Destroy(pl) == [ pl EXCEPT !.destroyed = TRUE, !.destroys = @ + 1 ]

\* DestroyVideoStream that finds the camera's players by camera id and calls
\* destroy on each of them, whether or not a video element is still there.
DestroyVideoStreamByCamera(cds, pls, id) ==
    [ cards   |-> IF id \in DOMAIN cds
                  THEN [ cds EXCEPT ![id].video = NoVideo ] ELSE cds,
      players |-> [ p \in DOMAIN pls |->
                      IF pls[p].cam = id THEN Destroy(pls[p]) ELSE pls[p] ] ]

\* destroyVideoStream(cameraId).  The result is the pair (cards, players).
DestroyVideoStream(cds, pls, id) ==
    IF id \notin DOMAIN cds \/ cds[id].video = NoVideo
    THEN [ cards |-> cds, players |-> pls ]
    ELSE LET h == VideoHls(cds[id].video)
         IN  [ cards   |-> [ cds EXCEPT ![id].video = NoVideo ],
               players |-> IF h # 0 THEN [ pls EXCEPT ![h] = Destroy(pls[h]) ]
                                    ELSE pls ]

\* OnHlsError without the test of data.fatal: every error is acted on.
OnHlsErrorIgnoresFatal(pl, type, fatal) ==
    CASE type = "networkError" -> [ pl EXCEPT !.startLoads = @ + 1 ]
      [] type = "mediaError"   -> [ pl EXCEPT !.recovers = @ + 1 ]
      [] OTHER                 -> [ pl EXCEPT !.destroyed = TRUE, !.destroys = @ + 1 ]

\* OnHlsError with a retry budget: a second fatal network error gives up.
OnHlsErrorRetryOnce(pl, type, fatal) ==
    IF ~fatal THEN pl
    ELSE CASE type = "networkError" ->
                 IF pl.startLoads = 0 THEN [ pl EXCEPT !.startLoads = @ + 1 ]
                 ELSE [ pl EXCEPT !.destroyed = TRUE, !.destroys = @ + 1 ]
           [] type = "mediaError"   -> [ pl EXCEPT !.recovers = @ + 1 ]
           [] OTHER                 -> [ pl EXCEPT !.destroyed = TRUE, !.destroys = @ + 1 ]

\* OnHlsError without its default case: every fatal error is retried.
OnHlsErrorRetryAll(pl, type, fatal) ==
    IF ~fatal THEN pl
    ELSE CASE type = "mediaError" -> [ pl EXCEPT !.recovers = @ + 1 ]
           [] OTHER               -> [ pl EXCEPT !.startLoads = @ + 1 ]

\* The Hls.Events.ERROR listener of one player.
OnHlsError(pl, type, fatal) ==
    IF ~fatal THEN pl
    ELSE CASE type = "networkError" -> [ pl EXCEPT !.startLoads = @ + 1 ]
           [] type = "mediaError"   -> [ pl EXCEPT !.recovers = @ + 1 ]
           [] OTHER                 -> Destroy(pl)

\* The Hls.Events.MANIFEST_PARSED listener of one player: video.play()
OnManifestParsed(pl) == [ pl EXCEPT !.plays = @ + 1 ]

\* Object.keys(active_streams): the ids present, integer-like keys ascending
Keys(status) ==
    LET zero == IF status["0"] # "absent" THEN << "0" >> ELSE << >>
        one  == IF status["1"] # "absent" THEN << "1" >> ELSE << >>
    IN  zero \o one

\* Main that looks at the presence of the entry, not at its main flag
MainOfPresence(status, id) == status[id] # "absent"

\* camStatus?.main of one camera of a status response
Main(status, id) == status[id] = "up"

\* UpdateStatusDisplay that also stops a listed camera the response lacks
UpdateStatusDisplayStopsAbsent(cds, cams, status) ==
    [ c \in DOMAIN cds |->
        IF Includes(cams, c) /\ status[c] = "absent"
        THEN [ cds[c] EXCEPT !.startDisabled = FALSE, !.stopDisabled = TRUE,
                             !.video = 0 ]
        ELSE cds[c] ]

\* UpdateStatusDisplay that also starts a listed camera reported up
UpdateStatusDisplayStartsUp(cds, cams, status) ==
    [ c \in DOMAIN cds |->
        IF Includes(cams, c) /\ status[c] = "up"
        THEN [ cds[c] EXCEPT !.startDisabled = TRUE, !.stopDisabled = FALSE,
                             !.video = -1 ]
        ELSE cds[c] ]

\* The forEach of updateStatusDisplay: every listed camera whose card still
\* has an element matching .status-indicator gets the class of its health.
UpdateStatusDisplay(cds, cams, status) ==
    [ c \in DOMAIN cds |->
        IF Includes(cams, c) /\ HasIndicator(cds[c])
        THEN [ cds[c] EXCEPT !.indicator =
                 IF Main(status, c) THEN "status-dot healthy"
                                    ELSE "status-dot error" ]
        ELSE cds[c] ]

\* Throws without the check of response.ok: only the awaits throw.
ThrowsOnAwaitOnly(outcome) == outcome = "threw"

\* Does handleControlAction leave its try block by an exception?  The awaits
\* throw by themselves, and a response that is not ok is made to throw.
Throws(outcome) == outcome # "ok"

\* ResetState with the flag the wrong way round
ResetStateInverted(action) == action = "start"

\* The value the catch block of handleControlAction passes to
\* updateButtonStates.
ResetState(action) == action # "start"

\* The message of the alert raised for a failed control request.
NoAlert == [ action |-> "none", cam |-> "none", why |-> "none" ]

AlertOf(r, outcome) == [ action |-> r.action, cam |-> r.cam, why |-> outcome ]

\* Can the operator click this control button?  A disabled button gets no
\* click event.
Clickable(cds, id, action) ==
    /\ id \in DOMAIN cds
    /\ IF action = "start" THEN ~cds[id].startDisabled ELSE ~cds[id].stopDisabled

\* Camera c's card shows a player that is playing
Live(c) ==
    /\ c \in DOMAIN cards
    /\ cards[c].video > 0
    /\ ~players[cards[c].video].destroyed
    /\ players[cards[c].video].plays > 0

\* Room for one more event from outside
MoreEvents == nreq + npoll + nerr < MaxEvents

PendingFor(id, action) == { r \in pending : r.cam = id /\ r.action = action }

\* ------------------------------------------------------------------ Init
Init ==
    /\ cameras = << >>
    /\ cards = EmptyGrid
    /\ players = << >>
    /\ support \in Supports
    /\ pending = {}
    /\ nreq = 0
    /\ intent = [ c \in CameraIds |-> "none" ]
    /\ alerts = 0
    /\ lastAlert = NoAlert
    /\ polls = {}
    /\ npoll = 0
    /\ lastApplied = 0
    /\ pollSaw = [ c \in CameraIds |-> "-" ]
    /\ activeCount = 0
    /\ notified = 0
    /\ loadState = "pending"
    /\ nerr = 0

\* --------------------------------------------------------------- actions
\* The click listener of #add-camera-btn.
AddCamera(text) ==
    /\ Trim(text) # << >>
    /\ ~Includes(cameras, IdOf(Trim(text)))
    /\ LET made == CreateCameraCard(cameras, cards, IdOf(Trim(text)))
       IN  /\ cameras' = made.cameras
           /\ cards' = made.cards
    /\ UNCHANGED << players, support, pending, nreq, intent, alerts, lastAlert,
                 polls, npoll, lastApplied, pollSaw, activeCount, notified,
                 loadState, nerr >>

\* A click on a control button: handleControlAction up to its await fetch.
ClickControl(id, action) ==
    /\ MoreEvents
    /\ Clickable(cards, id, action)
    /\ nreq' = nreq + 1
    /\ pending' = pending \cup { [ n |-> nreq + 1, cam |-> id, action |-> action,
                                   pre |-> << cards[id].startDisabled,
                                              cards[id].stopDisabled >> ] }
    /\ intent' = [ intent EXCEPT ![id] =
                     IF action = "start" THEN "start"
                     ELSE IF PendingFor(id, "start") # {} THEN "stopOverStart"
                     ELSE "stop" ]
    /\ UNCHANGED << cameras, cards, players, support, alerts, lastAlert, polls,
                 npoll, lastApplied, pollSaw, activeCount, notified, loadState,
                 nerr >>

\* handleControlAction after a 2xx response with a JSON body.
ControlSucceeded(r) ==
    /\ r \in pending
    /\ pending' = pending \ {r}
    /\ LET shown == UpdateButtonStates(cards, r.cam, r.action = "start")
           done  == IF r.action = "start"
                    THEN InitVideoStream(shown, players, support, r.cam)
                    ELSE DestroyVideoStream(shown, players, r.cam)
       IN  /\ cards' = done.cards
           /\ players' = done.players
    /\ intent' = [ intent EXCEPT ![r.cam] =
                     IF r.action = "stop" /\ @ = "stopOverStart"
                     THEN "stoppedOverStart" ELSE @ ]
    /\ UNCHANGED << cameras, support, nreq, alerts, lastAlert, polls, npoll,
                 lastApplied, pollSaw, activeCount, notified, loadState, nerr >>

\* handleControlAction when the request fails: the catch block.
ControlFailed(r, outcome) ==
    /\ r \in pending
    /\ pending' = pending \ {r}
    /\ alerts' = alerts + 1
    /\ lastAlert' = AlertOf(r, outcome)
    /\ cards' = UpdateButtonStates(cards, r.cam, ResetState(r.action))
    /\ intent' = [ intent EXCEPT ![r.cam] =
                     IF r.action = "stop" /\ @ = "stopOverStart"
                     THEN "stop" ELSE @ ]
    /\ UNCHANGED << cameras, players, support, nreq, polls, npoll, lastApplied,
                 pollSaw, activeCount, notified, loadState, nerr >>

\* A control request resolves: the rest of handleControlAction.
ControlResponse(r, outcome) ==
    \/ ~Throws(outcome) /\ ControlSucceeded(r)
    \/ Throws(outcome) /\ ControlFailed(r, outcome)

\* One tick of the setInterval of startStatusPolling: the fetch is issued.
PollTick ==
    /\ MoreEvents
    /\ npoll' = npoll + 1
    /\ polls' = polls \cup { npoll + 1 }
    /\ UNCHANGED << cameras, cards, players, support, pending, nreq, intent,
                 alerts, lastAlert, lastApplied, pollSaw, activeCount,
                 notified, loadState, nerr >>

\* The poll of tick t resolves with a status object: updateStatusDisplay.
PollResponse(t, status) ==
    /\ t \in polls
    /\ polls' = polls \ {t}
    /\ activeCount' = Len(Keys(status))
    /\ cards' = UpdateStatusDisplay(cards, cameras, status)
    /\ lastApplied' = t
    /\ pollSaw' = [ c \in CameraIds |->
                      IF Live(c) THEN status[c] ELSE "-" ]
    /\ UNCHANGED << cameras, players, support, pending, nreq, intent, alerts,
                 lastAlert, npoll, notified, loadState, nerr >>

\* PollFailed that also treats the failure as an empty status: every
\* indicator still found is given the error class.
PollFailedMarksDown(t) ==
    /\ t \in polls
    /\ polls' = polls \ {t}
    /\ notified' = notified + 1
    /\ cards' = UpdateStatusDisplay(cards, cameras,
                                     [ c \in CameraIds |-> "absent" ])
    /\ UNCHANGED << cameras, players, support, pending, nreq, intent,
                 alerts, lastAlert, npoll, lastApplied, pollSaw, activeCount,
                 loadState, nerr >>

\* The poll of tick t fails (rejected fetch, body without a status object):
\* the catch block of the interval callback.
PollFailed(t) ==
    /\ t \in polls
    /\ polls' = polls \ {t}
    /\ notified' = notified + 1
    /\ UNCHANGED << cameras, cards, players, support, pending, nreq, intent,
                 alerts, lastAlert, npoll, lastApplied, pollSaw, activeCount,
                 loadState, nerr >>

\* initialLoadCameras: the status fetch resolves with a status object.
InitialLoadResponse(status) ==
    /\ loadState = "pending"
    /\ loadState' = "done"
    /\ LET grid == RenderCameraGrid(Keys(status))
       IN  /\ cameras' = grid.cameras
           /\ cards' = grid.cards
    /\ UNCHANGED << players, support, pending, nreq, intent, alerts, lastAlert,
                 polls, npoll, lastApplied, pollSaw, activeCount, notified,
                 nerr >>

\* initialLoadCameras: the promise chain rejects; nothing handles it.
InitialLoadFailed ==
    /\ loadState = "pending"
    /\ loadState' = "failed"
    /\ UNCHANGED << cameras, cards, players, support, pending, nreq, intent,
                 alerts, lastAlert, polls, npoll, lastApplied, pollSaw,
                 activeCount, notified, nerr >>

\* Players that can still raise events: hls.destroy() removes every listener.
Alive == { p \in DOMAIN players : ~players[p].destroyed }

\* Player p reports MANIFEST_PARSED (once per loadSource).
ManifestParsed(p) ==
    /\ p \in Alive
    /\ players[p].plays = 0
    /\ players' = [ players EXCEPT ![p] =
                      [ OnManifestParsed(@) EXCEPT !.mediaRun = 0 ] ]
    /\ UNCHANGED << cameras, cards, support, pending, nreq, intent, alerts,
                 lastAlert, polls, npoll, lastApplied, pollSaw, activeCount,
                 notified, loadState, nerr >>

\* HlsError that also tells the operator of a fatal error
HlsErrorNotifies(p, type, fatal) ==
    /\ p \in Alive
    /\ MoreEvents
    /\ nerr' = nerr + 1
    /\ players' = [ players EXCEPT ![p] =
                      [ OnHlsError(@, type, fatal) EXCEPT !.mediaRun =
                          IF fatal /\ type = "mediaError" THEN @ + 1 ELSE @ ] ]
    /\ notified' = IF fatal THEN notified + 1 ELSE notified
    /\ UNCHANGED << cameras, cards, support, pending, nreq, intent, alerts,
                 lastAlert, polls, npoll, lastApplied, pollSaw, activeCount,
                 loadState >>

\* Player p reports an error event.
HlsError(p, type, fatal) ==
    /\ p \in Alive
    /\ MoreEvents
    /\ nerr' = nerr + 1
    /\ players' = [ players EXCEPT ![p] =
                      [ OnHlsError(@, type, fatal) EXCEPT !.mediaRun =
                          IF fatal /\ type = "mediaError" THEN @ + 1 ELSE @ ] ]
    /\ UNCHANGED << cameras, cards, support, pending, nreq, intent, alerts,
                 lastAlert, polls, npoll, lastApplied, pollSaw, activeCount,
                 notified, loadState >>

Next ==
    \/ \E text \in Inputs : AddCamera(text)
    \/ \E id \in CameraIds, action \in Actions : ClickControl(id, action)
    \/ \E r \in pending, outcome \in Outcomes : ControlResponse(r, outcome)
    \/ PollTick
    \/ \E t \in polls, status \in Snapshots : PollResponse(t, status)
    \/ \E t \in polls : PollFailed(t)
    \/ \E status \in Snapshots : InitialLoadResponse(status)
    \/ InitialLoadFailed
    \/ \E p \in DOMAIN players : ManifestParsed(p)
    \/ \E p \in DOMAIN players, type \in ErrorTypes, fatal \in BOOLEAN :
          HlsError(p, type, fatal)

Spec == Init /\ [][Next]_vars

\* ------------------------------------------------------------ properties
\* The players of camera c that were created and not destroyed
Undestroyed(c) ==
    { p \in DOMAIN players : players[p].cam = c /\ ~players[p].destroyed }

\* The start/stop button enablement of a card
Buttons(card) == << card.startDisabled, card.stopDisabled >>

\* C1: no double-attach -- in every reachable state each camera has at most
\* one Hls player that was created by initVideoStream and not yet destroyed.
C1_NoDoubleAttach ==
    \A c \in CameraIds : Cardinality(Undestroyed(c)) <= 1

\* C2: round-trip release -- when a stop succeeds for a camera whose card
\* shows the playing player of a successful start, that stop destroys the
\* player, exactly once, and no undestroyed player of the camera remains.
C2_RoundTripRelease ==
    [][ \A r \in pending :
          ( /\ r.action = "stop"
            /\ r.cam \in DOMAIN cards
            /\ cards[r.cam].video > 0
            /\ ~players[cards[r.cam].video].destroyed
            /\ players[cards[r.cam].video].plays > 0
            /\ ControlResponse(r, "ok") )
          => ( /\ players'[cards[r.cam].video].destroyed
               /\ players'[cards[r.cam].video].destroys = 1
               /\ \A p \in DOMAIN players' :
                     players'[p].cam = r.cam => players'[p].destroyed ) ]_vars

\* C3: media recovery is bounded -- a player that has reported two fatal
\* media errors with no return to playback in between has been released
\* (the session is Failed); it is never left to recover a second time.
C3_MediaRecoveryBounded ==
    \A p \in DOMAIN players :
        players[p].mediaRun >= 2 => players[p].destroyed

\* C4: every fatal network error of a player calls startLoad on that same
\* player, once, and does not destroy it, however many came before.
C4_NetworkAlwaysRetried ==
    [][ \A p \in DOMAIN players :
          HlsError(p, "networkError", TRUE)
          => ( /\ players'[p].startLoads = players[p].startLoads + 1
               /\ players'[p].destroys = players[p].destroys
               /\ ~players'[p].destroyed ) ]_vars

\* A player that was retried twice after network errors and is still there
C4_Witness ==
    \E p \in DOMAIN players :
        players[p].startLoads >= 2 /\ ~players[p].destroyed

\* C5: a fatal error that is neither a network nor a media error destroys
\* the player at once: destroy is called, startLoad and recoverMediaError
\* are not, and the player is released.
C5_FatalDestroys ==
    [][ \A p \in DOMAIN players :
          HlsError(p, "otherError", TRUE)
          => ( /\ players'[p].destroyed
               /\ players'[p].destroys = players[p].destroys + 1
               /\ players'[p].startLoads = players[p].startLoads
               /\ players'[p].recovers = players[p].recovers ) ]_vars

\* A player destroyed by its first error, with no retry and no recovery
C5_Witness ==
    \E p \in DOMAIN players :
        /\ players[p].destroyed
        /\ players[p].destroys = 1
        /\ players[p].startLoads = 0
        /\ players[p].recovers = 0
        /\ nerr = 1

\* No control request of camera c is in flight
Settled(c) == \A r \in pending : r.cam # c

\* C6: stop cancels an in-flight start -- once a stop that was issued while
\* a start of the same camera was pending has succeeded and every request
\* of the camera has resolved, the camera is stopped: start enabled, stop
\* disabled, no video in its card.
C6_StopCancelsStart ==
    \A c \in DOMAIN cards :
        (intent[c] = "stoppedOverStart" /\ Settled(c))
        => ( /\ cards[c].video = NoVideo
             /\ ~cards[c].startDisabled
             /\ cards[c].stopDisabled )

\* C7: rollback on failure -- when a start or stop request fails, the
\* buttons of the camera's card are, after the catch block has run, as
\* they were when the request was issued.
C7_RollbackOnFailure ==
    [][ \A r \in pending, outcome \in Outcomes \ {"ok"} :
          (ControlResponse(r, outcome) /\ r.cam \in DOMAIN cards')
          => Buttons(cards'[r.cam]) = r.pre ]_vars

\* A stop has just failed while another request of the camera is in flight
C7_Witness ==
    /\ alerts > 0
    /\ lastAlert.action = "stop"
    /\ lastAlert.cam \in DOMAIN cards
    /\ Buttons(cards[lastAlert.cam]) = << TRUE, FALSE >>
    /\ ~Settled(lastAlert.cam)

\* C8: a non-2xx response is a failure -- it creates no player, destroys
\* none, leaves every card's video alone and raises one alert naming the
\* camera and the action.
C8_Non2xxIsFailure ==
    [][ \A r \in pending :
          ControlResponse(r, "non2xx")
          => ( /\ players' = players
               /\ \A c \in DOMAIN cards :
                     c \in DOMAIN cards' /\ cards'[c].video = cards[c].video
               /\ alerts' = alerts + 1
               /\ lastAlert' = AlertOf(r, "non2xx") ) ]_vars

\* A stop was answered non-2xx and the camera's player is still there
C8_Witness ==
    /\ lastAlert.why = "non2xx"
    /\ lastAlert.action = "stop"
    /\ lastAlert.cam \in DOMAIN cards
    /\ cards[lastAlert.cam].video > 0
    /\ ~players[cards[lastAlert.cam].video].destroyed

\* C9: a poll response that lacks a listed camera does not stop it -- the
\* camera stays listed, none of its players changes, and its card keeps its
\* button state and its video.
C9_AbsentNeverStops ==
    [][ \A t \in polls, status \in Snapshots :
          PollResponse(t, status)
          => \A c \in Range(cameras) :
                status[c] = "absent"
                => ( /\ Includes(cameras', c)
                     /\ Len(players') = Len(players)
                     /\ \A p \in DOMAIN players :
                           players[p].cam = c => players'[p] = players[p]
                     /\ c \in DOMAIN cards
                          => ( /\ c \in DOMAIN cards'
                               /\ Buttons(cards'[c]) = Buttons(cards[c])
                               /\ cards'[c].video = cards[c].video ) ) ]_vars

\* The response applied last lacked a camera that was live then and is
\* still started, with its player
C9_Witness ==
    \E c \in DOMAIN cards :
        /\ Includes(cameras, c)
        /\ pollSaw[c] = "absent"
        /\ cards[c].video > 0
        /\ ~players[cards[c].video].destroyed
        /\ Buttons(cards[c]) = << TRUE, FALSE >>

C11_PollFailureChangesNothing ==
    [][ \A t \in polls :
          PollFailed(t)
          => ( /\ cameras' = cameras
               /\ players' = players
               /\ cards' = cards ) ]_vars

\* A poll has failed and been reported while a camera is live, its
\* indicator still the one the start left
C11_Witness ==
    /\ notified > 0
    /\ \E c \in DOMAIN cards :
          Live(c) /\ cards[c].indicator = "status-indicator active"

\* C12: a start that takes effect while the camera's card already shows an
\* undestroyed player is rejected -- no player is created and players and
\* cards stay exactly as they were.
C12_DoubleStartRejected ==
    [][ \A r \in pending :
          ( /\ r.action = "start"
            /\ r.cam \in DOMAIN cards
            /\ cards[r.cam].video > 0
            /\ ~players[cards[r.cam].video].destroyed
            /\ ControlResponse(r, "ok") )
          => ( players' = players /\ cards' = cards ) ]_vars

\* C13: a camera in the list is never dropped -- every step keeps every
\* listed camera in the list, and its card in the grid.  (The page has no
\* operation that removes a camera, and a stop keeps it listed.)
C13_NeverDropped ==
    [][ \A c \in Range(cameras) :
          /\ Includes(cameras', c)
          /\ c \in DOMAIN cards => c \in DOMAIN cards' ]_vars

\* C14: restart after failure -- when a fatal error destroys the player
\* that a camera's card shows, the camera's start button is enabled in the
\* resulting state.
C14_RestartAfterFailure ==
    [][ \A p \in DOMAIN players :
          ( /\ players[p].cam \in DOMAIN cards
            /\ cards[players[p].cam].video = p
            /\ HlsError(p, "otherError", TRUE) )
          => Clickable(cards', players[p].cam, "start") ]_vars

\* C15: only control-request failures reach the operator -- a poll failure
\* and a player error raise no alert and show no notification.
C15_OnlyControlFailuresNotify ==
    [][ ( \/ \E t \in polls : PollFailed(t)
          \/ \E p \in DOMAIN players, type \in ErrorTypes, fatal \in BOOLEAN :
                HlsError(p, type, fatal) )
        => ( alerts' = alerts /\ notified' = notified ) ]_vars

\* C15, amended: a player error raises no alert and shows no notification,
\* and an alert is raised by a failed control request only; a poll failure
\* shows one notification (and raises no alert).
C15_PollFailureNotifies ==
    [][ /\ \A p \in DOMAIN players, type \in ErrorTypes, fatal \in BOOLEAN :
              HlsError(p, type, fatal)
              => ( alerts' = alerts /\ notified' = notified )
        /\ \A t \in polls :
              PollFailed(t)
              => ( alerts' = alerts /\ notified' = notified + 1 )
        /\ alerts' # alerts
              => \E r \in pending, outcome \in Outcomes \ {"ok"} :
                    ControlResponse(r, outcome) ]_vars

\* The one poll failed and was notified, a player was destroyed by a fatal
\* error, and no alert was raised
C15_Witness ==
    /\ npoll = 1
    /\ notified = 1
    /\ alerts = 0
    /\ \E p \in DOMAIN players : players[p].destroyed

\* C16: no auto-start from server state -- a status response (initial load
\* or poll) creates no player, changes none, and leaves the buttons and the
\* video of every card that stays as they were; a player comes into being
\* only in the step of a start request that succeeded.
C16_NoAutoStart ==
    [][ /\ \A status \in Snapshots :
              ( \/ InitialLoadResponse(status)
                \/ \E t \in polls : PollResponse(t, status) )
              => ( /\ players' = players
                   /\ \A c \in DOMAIN cards' :
                         IF c \in DOMAIN cards
                         THEN /\ Buttons(cards'[c]) = Buttons(cards[c])
                              /\ cards'[c].video = cards[c].video
                         ELSE cards'[c] = NewCard )
        /\ Len(players') > Len(players)
              => \E r \in pending :
                    r.action = "start" /\ ControlResponse(r, "ok") ]_vars

\* A poll response reported the one listed camera up, and another camera
\* besides it; the listed camera is not started and no player exists
C16_Witness ==
    /\ activeCount = 2
    /\ Len(cameras) = 1
    /\ players = << >>
    /\ \E c \in DOMAIN cards :
          /\ cards[c].indicator = "status-dot healthy"
          /\ cards[c].video = NoVideo
          /\ Buttons(cards[c]) = << FALSE, TRUE >>

\* C17: each snapshot supersedes the one before -- after a poll response
\* has been applied, every listed camera with a card shows the healthy
\* indicator exactly if that response reports main true for it.
C17_SnapshotSupersedes ==
    [][ \A t \in polls, status \in Snapshots :
          PollResponse(t, status)
          => \A c \in Range(cameras) \cap DOMAIN cards :
                (cards'[c].indicator = "status-dot healthy")
                  <=> (status[c] = "up") ]_vars

\* C18: successful start of an idle camera -- where Hls is supported, a start
\* request that resolves 2xx for a camera with no undestroyed player creates
\* exactly one player, for that camera, shown in its card; and a player that
\* reports its manifest parsed begins playback.
C18_StartAttachesOnce ==
    [][ /\ \A r \in pending :
              ( /\ support = "hls"
                /\ r.action = "start"
                /\ Undestroyed(r.cam) = {}
                /\ ControlResponse(r, "ok") )
              => ( /\ Len(players') = Len(players) + 1
                   /\ players'[Len(players')].cam = r.cam
                   /\ r.cam \in DOMAIN cards'
                   /\ cards'[r.cam].video = Len(players') )
        /\ \A p \in DOMAIN players :
              ManifestParsed(p) => players'[p].plays = players[p].plays + 1 ]_vars

\* C19: player handle matches session state -- where Hls is supported, in
\* every reachable state a camera's card shows the started state (start
\* disabled, stop enabled) exactly when the camera has an undestroyed player.
C19_HandleMatchesState ==
    support = "hls" =>
        \A c \in DOMAIN cards :
            ( Undestroyed(c) # {} )
               <=> ( cards[c].startDisabled /\ ~cards[c].stopDisabled )

\* C20: per-camera arrival order -- the response of a control request is
\* applied only when no control request issued earlier for the same camera
\* is still waiting for its response.
C20_ArrivalOrder ==
    [][ \A r \in pending, outcome \in Outcomes :
          ControlResponse(r, outcome)
             => \A s \in pending : s.cam = r.cam => s.n >= r.n ]_vars

\* C21: cross-camera independence -- a click on a control button of camera
\* a, the response of a control request of camera a, or an error event of a
\* player of camera a leaves every other camera b as it was: b's card (its
\* buttons, indicator and video) and b's players are unchanged, and no
\* player of b is created.
C21_CrossCameraIndependence ==
    [][ \A a \in CameraIds : \A b \in CameraIds \ {a} :
          ( \/ \E action \in Actions : ClickControl(a, action)
            \/ \E r \in pending, outcome \in Outcomes :
                  r.cam = a /\ ControlResponse(r, outcome)
            \/ \E p \in DOMAIN players, type \in ErrorTypes, fatal \in BOOLEAN :
                  players[p].cam = a /\ HlsError(p, type, fatal) )
          => ( /\ (b \in DOMAIN cards) <=> (b \in DOMAIN cards')
               /\ b \in DOMAIN cards => cards'[b] = cards[b]
               /\ \A p \in DOMAIN players' :
                     players'[p].cam = b
                        => ( p \in DOMAIN players /\ players'[p] = players[p] ) ) ]_vars

\* Two cameras were started, a player of one was then destroyed by a fatal
\* error, and the other still shows its undestroyed player, started.
C21_Witness ==
    \E a \in CameraIds : \E b \in CameraIds \ {a} :
        /\ a \in DOMAIN cards /\ b \in DOMAIN cards
        /\ \E p \in DOMAIN players : players[p].cam = a /\ players[p].destroyed
        /\ cards[b].video > 0
        /\ ~players[cards[b].video].destroyed
        /\ Buttons(cards[b]) = << TRUE, FALSE >>

\* C22: detach is idempotent -- in every reachable state and for every
\* camera, destroyVideoStream called twice in a row leaves the cards and the
\* players exactly as one call leaves them, and no player has had destroy
\* called on it more than once.
C22_DetachIdempotent ==
    \A c \in CameraIds :
        LET once  == DestroyVideoStream(cards, players, c)
            twice == DestroyVideoStream(once.cards, once.players, c)
        IN  /\ twice = once
            /\ \A p \in DOMAIN twice.players : twice.players[p].destroys <= 1

\* One camera was started once and then stopped by two stop requests that
\* both succeeded: destroyVideoStream has run twice with no start between.
C22_Witness ==
    /\ support = "hls"
    /\ loadState = "pending"
    /\ nreq = 3 /\ pending = {} /\ alerts = 0
    /\ Len(players) = 1
    /\ \E c \in CameraIds :
          /\ DOMAIN cards = {c}
          /\ cards[c].video = NoVideo
          /\ Buttons(cards[c]) = << FALSE, TRUE >>

\* C23: card/list consistency -- once the initial status load has completed,
\* the ids of the camera list are exactly the ids that have a card in the
\* grid.
C23_CardListConsistency ==
    loadState = "done" => Range(cameras) = DOMAIN cards

\* C24: poll responses are applied in issue order -- a poll response is
\* applied only if its tick is later than the tick of the response applied
\* last.
C24_PollsInIssueOrder ==
    [][ \A t \in polls, status \in Snapshots :
          PollResponse(t, status) => t > lastApplied ]_vars

\* C25: start and stop are mutually exclusive -- in every reachable state
\* every card has exactly one of its two control buttons enabled.
C25_ExactlyOneEnabled ==
    \A c \in DOMAIN cards : cards[c].startDisabled # cards[c].stopDisabled

\* A stop request failed for a camera whose card is back in the started state.
C25_Witness ==
    /\ alerts > 0
    /\ lastAlert.action = "stop"
    /\ lastAlert.cam \in DOMAIN cards
    /\ Buttons(cards[lastAlert.cam]) = << TRUE, FALSE >>

\* C26: the camera list holds no id twice and no empty id, and the add-camera
\* handler changes nothing for a text that is empty after trimming or that
\* names a camera already in the list.
C26_NoDuplicateNoEmpty ==
    /\ \A i, j \in DOMAIN cameras : i # j => cameras[i] # cameras[j]
    /\ \A i \in DOMAIN cameras : cameras[i] \in CameraIds
    /\ \A text \in Inputs :
          ( Trim(text) = << >> \/ Includes(cameras, IdOf(Trim(text))) )
             => ~ENABLED AddCamera(text)

\* The list holds a camera of the initial status load and an added one.
C26_Witness ==
    /\ loadState = "done"
    /\ Len(cameras) = 2
    /\ Cardinality(DOMAIN cards) = 1

\* C27: a non-fatal error triggers no recovery -- an error event whose fatal
\* flag is false, of any type, leaves every player (no startLoad, no
\* recoverMediaError, no destroy), every card and the pending requests
\* unchanged.
C27_NonFatalIgnored ==
    [][ \A p \in DOMAIN players, type \in ErrorTypes :
          HlsError(p, type, FALSE)
             => ( players' = players /\ cards' = cards /\ pending' = pending ) ]_vars

\* A playing player has reported errors and no recovery call was ever made.
C27_Witness ==
    /\ nerr > 0
    /\ \E p \in DOMAIN players : players[p].plays > 0
    /\ \A p \in DOMAIN players :
          /\ players[p].startLoads = 0
          /\ players[p].recovers = 0
          /\ players[p].destroys = 0

====
